---------------------------- MODULE Spec2Model ----------------------------
(***************************************************************************)
(* The Jira tool dispatcher of mcp_atlassian: call_tool of                 *)
(* src/src/mcp_atlassian/jira/jira_server.py, with the Jira service        *)
(* (jira_service.get_issue / jira_service.search_issues) as a black box    *)
(* that returns any object or raises any Exception.                        *)
(*                                                                         *)
(* Python values are tagged records.  A dict is the sequence of its        *)
(* <<key, value>> items in insertion order; an object carries its class    *)
(* name, its attributes and, when it has the method, what                  *)
(* to_simplified_dict() returns.  The text of a TextContent is held as the *)
(* JSON document that json.dumps writes.                                   *)
(***************************************************************************)
EXTENDS Integers, Sequences, FiniteSets, TLC

(***************************************************************************)
(* Bounds of the model.                                                    *)
(***************************************************************************)
\* Invocation slots: how many call_tool invocations can exist at once.
NumSlots == 2
\* Longest issues list the Jira service returns.
MaxIssues == 2

(***************************************************************************)
(* Python values.                                                          *)
(***************************************************************************)
None == [t |-> "none"]
PyStr(s) == [t |-> "str", s |-> s]
PyInt(n) == [t |-> "int", n |-> n]
\* The float num/den, den > 0.
PyFloat(num, den) == [t |-> "float", num |-> num, den |-> den]
PyDict(items) == [t |-> "dict", items |-> items]
PyList(elems) == [t |-> "list", elems |-> elems]
\* simp is <<>> when the object has no to_simplified_dict method, else <<d>>
\* with d what the method returns.
PyObj(cls, attrs, simp) == [t |-> "obj", cls |-> cls, attrs |-> attrs, simp |-> simp]

\* type(v).__name__
TypeName(v) ==
    CASE v.t = "none" -> "NoneType"
      [] v.t = "obj" -> v.cls
      [] OTHER -> v.t

\* An exception instance; str(e) is e.msg.
Exc(type, msg) == [type |-> type, msg |-> msg]

\* isinstance(v, dict)
IsDict(v) == v.t = "dict"

\* The positions of key k in the items of a dict (at most one).
KeyAt(items, k) == {i \in 1..Len(items) : items[i][1] = k}

HasKey(d, k) == KeyAt(d.items, k) # {}

\* d.get(k, default)
DictGet(d, k, default) ==
    IF HasKey(d, k) THEN d.items[CHOOSE i \in KeyAt(d.items, k) : TRUE][2]
    ELSE default

\* hasattr(v, a), for the attribute names the dispatcher probes.
HasAttr(v, a) ==
    /\ v.t = "obj"
    /\ IF a = "to_simplified_dict" THEN v.simp # <<>> ELSE HasKey(v.attrs, a)

\* getattr(v, a, default)
GetAttr(v, a, default) ==
    IF HasAttr(v, a) THEN DictGet(v.attrs, a, default) ELSE default

\* The decimal literals int() is given as strings.
IntLiterals == <<<<PyStr("7"), 7>>, <<PyStr("60"), 60>>>>

\* A computation that completed with a value, or raised.
Value(v) == [ok |-> TRUE, v |-> v]
Raises(e) == [ok |-> FALSE, e |-> e]

\* int(v): an int as it is, a float truncated toward zero, a string parsed,
\* anything else a TypeError.
BuiltinInt(v) ==
    CASE v.t = "int" -> Value(v.n)
      [] v.t = "float" ->
            Value(IF v.num >= 0 THEN v.num \div v.den ELSE -((-v.num) \div v.den))
      [] v.t = "str" ->
            IF KeyAt(IntLiterals, v) # {}
            THEN Value(IntLiterals[CHOOSE i \in KeyAt(IntLiterals, v) : TRUE][2])
            ELSE Raises(Exc("ValueError",
                     "invalid literal for int() with base 10: '" \o v.s \o "'"))
      [] OTHER ->
            Raises(Exc("TypeError",
                "int() argument must be a string, a bytes-like object or a real number, not '"
                \o TypeName(v) \o "'"))

\* min(a, b) on ints
BuiltinMin(a, b) == IF b < a THEN b ELSE a

(***************************************************************************)
(* json.dumps.  A JSON document is null, a string, a number, an array or   *)
(* an object (its members in order).  An object of a class json does not   *)
(* know raises TypeError, naming the first one met in document order.      *)
(***************************************************************************)
RECURSIVE Unserializable(_)
\* The classes of the values json.dumps cannot encode, in document order.
Unserializable(v) ==
    CASE v.t = "obj" -> <<v.cls>>
      [] v.t = "list" ->
            IF v.elems = <<>> THEN <<>>
            ELSE Unserializable(Head(v.elems))
                 \o Unserializable(PyList(Tail(v.elems)))
      [] v.t = "dict" ->
            IF v.items = <<>> THEN <<>>
            ELSE Unserializable(Head(v.items)[2])
                 \o Unserializable(PyDict(Tail(v.items)))
      [] OTHER -> <<>>

RECURSIVE Encode(_)
\* The document json.dumps writes for a value it can encode.
Encode(v) ==
    CASE v.t = "none" -> [j |-> "null"]
      [] v.t = "str" -> [j |-> "string", s |-> v.s]
      [] v.t = "int" -> [j |-> "number", num |-> v.n, den |-> 1]
      [] v.t = "float" -> [j |-> "number", num |-> v.num, den |-> v.den]
      [] v.t = "list" ->
            [j |-> "array", elems |-> [i \in 1..Len(v.elems) |-> Encode(v.elems[i])]]
      [] v.t = "dict" ->
            [j |-> "object",
             members |-> [i \in 1..Len(v.items) |->
                            <<v.items[i][1], Encode(v.items[i][2])>>]]

\* json.dumps(v, indent=2)
JsonDumps(v) ==
    IF Unserializable(v) = <<>> THEN Value(Encode(v))
    ELSE Raises(Exc("TypeError",
             "Object of type " \o Head(Unserializable(v)) \o " is not JSON serializable"))


(***************************************************************************)
(* call_tool.  The handler runs up to its call of the Jira service, waits  *)
(* for the service, and runs on to its return or raise.  What it does      *)
(* next is a disposition: return a content list, raise, or call the        *)
(* service.                                                                *)
(***************************************************************************)
Return(content) == [kind |-> "return", content |-> content]
Raise(e) == [kind |-> "raise", e |-> e]
Await(call) == [kind |-> "call", call |-> call]

DEFAULT_FIELDS ==
    PyStr("summary,description,status,assignee,reporter,labels,priority,created,updated,issuetype")
DEFAULT_COMMENT_LIMIT == 10
DEFAULT_LIMIT == 10
PAGE_CAP == 50
DEFAULT_START == 0
DEFAULT_START_AT == 0
DEFAULT_TOTAL == 0

\* A chain whose last branch is taken by every other name.
ToolBranchSearchByDefault(name) ==
    IF name = "jira_get_issue" THEN "get_issue" ELSE "search"

\* The branch of the if / elif / else chain a tool name takes.
ToolBranch(name) ==
    IF name = "jira_get_issue" THEN "get_issue"
    ELSE IF name = "jira_search" THEN "search"
    ELSE "unknown"

\* The jira_get_issue branch up to jira_service.get_issue(...).
GetIssueCall(arguments) ==
    Await([op |-> "get_issue",
           issue_key |-> DictGet(arguments, "issue_key", None),
           fields |-> DictGet(arguments, "fields", DEFAULT_FIELDS),
           expand |-> DictGet(arguments, "expand", None),
           comment_limit |-> DictGet(arguments, "comment_limit",
                                     PyInt(DEFAULT_COMMENT_LIMIT))])

\* The limit without the min(..., 50).
SearchLimitUncapped(arguments) ==
    BuiltinInt(DictGet(arguments, "limit", PyInt(DEFAULT_LIMIT)))

\* limit = min(int(arguments.get("limit", 10)), 50)
SearchLimit(arguments) ==
    LET n == BuiltinInt(DictGet(arguments, "limit", PyInt(DEFAULT_LIMIT)))
    IN  IF n.ok THEN Value(BuiltinMin(n.v, PAGE_CAP)) ELSE n

\* start_at = int(arguments.get("startAt", 0))
SearchStart(arguments) ==
    BuiltinInt(DictGet(arguments, "startAt", PyInt(DEFAULT_START)))

\* The jira_search branch up to jira_service.search_issues(...).
SearchCall(arguments) ==
    LET limit == SearchLimit(arguments)
        start_at == SearchStart(arguments)
    IN  IF ~limit.ok THEN Raise(limit.e)
        ELSE IF ~start_at.ok THEN Raise(start_at.e)
        ELSE Await([op |-> "search_issues",
                    jql |-> DictGet(arguments, "jql", None),
                    fields |-> DictGet(arguments, "fields", DEFAULT_FIELDS),
                    limit |-> limit.v,
                    start |-> start_at.v])

\* The try body from its first line to the call of the Jira service.
Begin(name, arguments) ==
    IF ~IsDict(arguments)
    THEN Raise(Exc("RuntimeError", "arguments must be dictionary"))
    ELSE CASE ToolBranch(name) = "get_issue" -> GetIssueCall(arguments)
           [] ToolBranch(name) = "search" -> SearchCall(arguments)
           [] OTHER -> Raise(Exc("ValueError", "Unknown tool: " \o name))

\* The issue as it is, to_simplified_dict never called.
SimplifyPassthrough(issue) == issue

\* issue.to_simplified_dict() if hasattr(issue, "to_simplified_dict") else issue
Simplify(issue) ==
    IF HasAttr(issue, "to_simplified_dict") THEN issue.simp[1] ELSE issue

\* return [TextContent(type="text", text=json.dumps(value, indent=2))]
TextResponse(value) ==
    LET text == JsonDumps(value)
    IN  IF text.ok THEN Return(<<[type |-> "text", text |-> text.v]>>)
        ELSE Raise(text.e)

\* The jira_get_issue branch after jira_service.get_issue returned issue.
FormatIssue(issue) == TextResponse(Simplify(issue))

\* for x in v: the elements of a list; None is not iterable.
Iterate(v) ==
    IF v.t = "list" THEN Value(v.elems)
    ELSE Raises(Exc("TypeError", "'" \o TypeName(v) \o "' object is not iterable"))

\* The response dict with max_results read from the total attribute.
SearchResponseMaxFromTotal(search_result, issues) ==
    PyDict(<< <<"total", GetAttr(search_result, "total", PyInt(0))>>,
              <<"start_at", GetAttr(search_result, "start_at", PyInt(0))>>,
              <<"max_results", GetAttr(search_result, "total", PyInt(Len(issues)))>>,
              <<"issues", PyList(issues)>> >>)

\* The response dict built from a search result that has an issues attribute.
SearchResponse(search_result, issues) ==
    PyDict(<< <<"total", GetAttr(search_result, "total", PyInt(DEFAULT_TOTAL))>>,
              <<"start_at", GetAttr(search_result, "start_at", PyInt(DEFAULT_START_AT))>>,
              <<"max_results", GetAttr(search_result, "max_results", PyInt(Len(issues)))>>,
              <<"issues", PyList(issues)>> >>)

\* The jira_search branch without the fallback: a result without an issues
\* attribute is answered as an empty page.
FormatSearchAlwaysWrapped(search_result) ==
    LET elems == Iterate(GetAttr(search_result, "issues", PyList(<<>>)))
    IN  IF ~elems.ok THEN Raise(elems.e)
        ELSE TextResponse(
                PyDict(<< <<"total", GetAttr(search_result, "total", PyInt(0))>>,
                          <<"start_at", GetAttr(search_result, "start_at", PyInt(0))>>,
                          <<"max_results", GetAttr(search_result, "max_results",
                                                   PyInt(Len(elems.v)))>>,
                          <<"issues", PyList([k \in 1..Len(elems.v) |->
                              IF HasAttr(elems.v[k], "to_simplified_dict")
                              THEN elems.v[k].simp[1] ELSE elems.v[k]])>> >>))

\* The jira_search branch after jira_service.search_issues returned.
FormatSearch(search_result) ==
    IF HasAttr(search_result, "issues")
    THEN LET elems == Iterate(GetAttr(search_result, "issues", None))
         IN  IF ~elems.ok THEN Raise(elems.e)
             ELSE TextResponse(SearchResponse(search_result,
                      [k \in 1..Len(elems.v) |-> Simplify(elems.v[k])]))
    ELSE TextResponse(search_result)

\* A try body that calls the service again when it raised.
ContinueRetry(call, ret) ==
    IF ~ret.ok THEN Await(call)
    ELSE IF call.op = "get_issue"
         THEN TextResponse(IF HasAttr(ret.v, "to_simplified_dict")
                           THEN ret.v.simp[1] ELSE ret.v)
         ELSE TextResponse(ret.v)

\* The try body after the Jira service returned (ret.ok) or raised.
Continue(call, ret) ==
    IF ~ret.ok THEN Raise(ret.e)
    ELSE IF call.op = "get_issue" THEN FormatIssue(ret.v)
    ELSE FormatSearch(ret.v)

\* An except clause that raises the exception again as it is.
ExceptReraise(disposition) == disposition

\* except Exception as e: raise RuntimeError(f"Caught Exception. Error: {str(e)}")
Except(disposition) ==
    IF disposition.kind = "raise"
    THEN Raise(Exc("RuntimeError", "Caught Exception. Error: " \o disposition.e.msg))
    ELSE disposition

(***************************************************************************)
(* What callers send.                                                      *)
(***************************************************************************)
\* No item, or the item k: v for a v of vs.
Opt(k, vs) == {<<>>} \cup {<< <<k, v>> >> : v \in vs}

ToolNames == {"jira_get_issue", "jira_search", "jira_delete_issue"}

NonMappings == {None, PyList(<<PyStr("PROJ-1")>>)}

GetIssueArguments ==
    {PyDict(a \o b \o c) :
        a \in Opt("issue_key", {PyStr(""), PyStr("PROJ-1"), PyStr("PROJ-2")}),
        b \in Opt("fields", {PyStr("*all")}),
        c \in {<<>>, << <<"expand", PyStr("changelog")>>,
                        <<"comment_limit", PyInt(0)>> >>}}

LimitValues ==
    {PyInt(n) : n \in {-1, 0, 1, 50, 51}}
        \cup {PyFloat(5, 2), PyStr("60"), PyStr("many")}

StartValues == {PyInt(n) : n \in {-1, 0, 7, 1000000}} \cup {PyStr("7"), None}

\* jql and fields vary with limit and startAt absent; limit and startAt vary
\* with the jql given.
SearchArguments ==
    {PyDict(a \o b) :
        a \in Opt("jql", {PyStr(""), PyStr("project = PROJ")}),
        b \in Opt("fields", {PyStr("summary")})}
    \cup
    {PyDict(<< <<"jql", PyStr("project = PROJ")>> >> \o c \o d) :
        c \in Opt("limit", LimitValues),
        d \in Opt("startAt", StartValues)}

\* The requests of the sequential specification: each tool with the arguments
\* meant for it, and every tool name with a non-mapping, with no argument and
\* with the other tool's arguments.
Requests ==
    ({"jira_get_issue"} \X GetIssueArguments)
        \cup ({"jira_search"} \X SearchArguments)
        \cup (ToolNames \X (NonMappings \cup
                {PyDict(<<>>),
                 PyDict(<< <<"issue_key", PyStr("PROJ-1")>> >>),
                 PyDict(<< <<"jql", PyStr("project = PROJ")>>,
                           <<"limit", PyInt(51)>> >>)}))

\* Callers of the concurrent specification: one request per path of call_tool.
ConcurrentRequests ==
    {<<"jira_get_issue", PyDict(<< <<"issue_key", PyStr("PROJ-1")>> >>)>>,
     <<"jira_search", PyDict(<< <<"jql", PyStr("project = PROJ")>>,
                                <<"limit", PyInt(51)>> >>)>>,
     <<"jira_search", PyDict(<< <<"limit", PyStr("many")>> >>)>>,
     <<"jira_delete_issue", PyDict(<<>>)>>,
     <<"jira_get_issue", None>>}

(***************************************************************************)
(* What the Jira service answers: it raises, or returns an object.         *)
(***************************************************************************)
ServiceErrors ==
    {Exc("HTTPError", "401 Client Error: Unauthorized"),
     Exc("ValueError", "Issue not found")}

\* What to_simplified_dict() of an issue model returns.
SimplifiedIssue(key) ==
    PyDict(<< <<"key", PyStr(key)>>, <<"summary", PyStr("Login fails")>> >>)
SimplifiedWithoutKey == PyDict(<< <<"summary", PyStr("Login fails")>> >>)

\* An issue model: it has to_simplified_dict.
JiraIssue(simplified) == PyObj("JiraIssue", PyDict(<<>>), <<simplified>>)
\* An issue as the plain dict of the REST API, and as an object without the method.
RawIssue == PyDict(<< <<"key", PyStr("PROJ-1")>>, <<"id", PyInt(10001)>> >>)
OpaqueIssue == PyObj("Issue", PyDict(<< <<"key", PyStr("PROJ-1")>> >>), <<>>)

IssueObjects(keys) ==
    {JiraIssue(SimplifiedIssue(k)) : k \in keys}
        \cup {JiraIssue(SimplifiedWithoutKey), RawIssue, OpaqueIssue}

GetIssueOutcomes(call) ==
    {Raises(e) : e \in ServiceErrors}
        \cup {Value(o) : o \in IssueObjects({"PROJ-1", ""}
                  \cup (IF call.issue_key.t = "str" THEN {call.issue_key.s} ELSE {}))}
SearchItems == IssueObjects({"PROJ-2"})

IssueLists(items, n) == UNION {[1..m -> items] : m \in 0..n}

\* A search result model: an issues attribute and the metadata it reports.
JiraSearchResult(meta, issues) ==
    PyObj("JiraSearchResult", PyDict(meta \o << <<"issues", issues>> >>), <<>>)

\* Search results without an issues attribute: dicts of the REST API, None,
\* and an object json cannot encode.
RawSearchResults ==
    {PyDict(<< <<"total", PyInt(1)>>, <<"start_at", PyInt(0)>>,
               <<"max_results", PyInt(100)>>, <<"issues", PyList(<<RawIssue>>)>> >>),
     PyDict(<< <<"errorMessages", PyList(<<PyStr("Error in the JQL Query")>>)>> >>),
     None,
     PyObj("Response", PyDict(<< <<"status_code", PyInt(200)>> >>), <<>>)}

SearchOutcomes(call, items, n) ==
    {Raises(e) : e \in ServiceErrors}
        \cup {Value(JiraSearchResult(a \o b \o c, PyList(l))) :
                a \in Opt("total", {PyInt(3)}),
                b \in Opt("start_at", {PyInt(call.start)}),
                c \in Opt("max_results", {PyInt(call.limit), PyInt(100)}),
                l \in IssueLists(items, n)}
        \cup {Value(JiraSearchResult(<<>>, None))}
        \cup {Value(r) : r \in RawSearchResults}

ServiceOutcomes(call) ==
    IF call.op = "get_issue" THEN GetIssueOutcomes(call)
    ELSE SearchOutcomes(call, SearchItems, MaxIssues)

ConcurrentOutcomes(call) ==
    IF call.op = "get_issue"
    THEN {Raises(e) : e \in ServiceErrors}
            \cup {Value(JiraIssue(SimplifiedIssue("PROJ-1"))), Value(OpaqueIssue)}
    ELSE {Raises(e) : e \in ServiceErrors}
            \cup {Value(JiraSearchResult(<<>>, PyList(l))) :
                    l \in IssueLists({JiraIssue(SimplifiedIssue("PROJ-1"))}, MaxIssues)}
            \cup {Value(None)}

(***************************************************************************)
(* The state: per invocation slot, where the handler is, the request, the  *)
(* calls it made of the Jira service, what the service answered, the       *)
(* exception raised in the try body, and what the caller gets.             *)
(***************************************************************************)
VARIABLES pc, request, gateway_calls, gateway_ret, failure, outcome

vars == <<pc, request, gateway_calls, gateway_ret, failure, outcome>>

Slots == 1..NumSlots

NoRequest == [name |-> "", arguments |-> None]

Init ==
    /\ pc = [i \in Slots |-> "idle"]
    /\ request = [i \in Slots |-> NoRequest]
    /\ gateway_calls = [i \in Slots |-> <<>>]
    /\ gateway_ret = [i \in Slots |-> <<>>]
    /\ failure = [i \in Slots |-> <<>>]
    /\ outcome = [i \in Slots |-> <<>>]

\* The handler of slot i goes on as the try / except says: it calls the
\* service, or ends with a return or a raise.
Proceed(i, body) ==
    LET disposition == Except(body)
    IN  /\ failure' = [failure EXCEPT ![i] =
                          IF body.kind = "raise" THEN <<body.e>> ELSE <<>>]
        /\ IF disposition.kind = "call"
           THEN /\ pc' = [pc EXCEPT ![i] = "gateway"]
                /\ gateway_calls' = [gateway_calls EXCEPT ![i] =
                                        Append(@, disposition.call)]
                /\ outcome' = outcome
           ELSE /\ pc' = [pc EXCEPT ![i] = "done"]
                /\ outcome' = [outcome EXCEPT ![i] = <<disposition>>]
                /\ gateway_calls' = gateway_calls

\* call_tool(name, arguments) starts in slot i.
CallTool(i, name, arguments) ==
    /\ pc[i] = "idle"
    /\ request' = [request EXCEPT ![i] = [name |-> name, arguments |-> arguments]]
    /\ gateway_ret' = gateway_ret
    /\ Proceed(i, Begin(name, arguments))

\* The Jira service answers the call of slot i.
ServiceAnswers(i, ret) ==
    /\ pc[i] = "gateway"
    /\ gateway_ret' = [gateway_ret EXCEPT ![i] = <<ret>>]
    /\ request' = request
    /\ Proceed(i, Continue(gateway_calls[i][Len(gateway_calls[i])], ret))

\* The caller takes the outcome of slot i; nothing of the invocation is kept.
Deliver(i) ==
    /\ pc[i] = "done"
    /\ pc' = [pc EXCEPT ![i] = "idle"]
    /\ request' = [request EXCEPT ![i] = NoRequest]
    /\ gateway_calls' = [gateway_calls EXCEPT ![i] = <<>>]
    /\ gateway_ret' = [gateway_ret EXCEPT ![i] = <<>>]
    /\ failure' = [failure EXCEPT ![i] = <<>>]
    /\ outcome' = [outcome EXCEPT ![i] = <<>>]

\* No other invocation is under way.
Alone(i) == \A j \in Slots \ {i} : pc[j] = "idle"

LastCall(i) == gateway_calls[i][Len(gateway_calls[i])]

\* One client at a time, sending anything.
Next ==
    \/ \E i \in Slots : pc[i] = "idle" /\ Alone(i) /\
          \E r \in Requests : CallTool(i, r[1], r[2])
    \/ \E i \in Slots : pc[i] = "gateway" /\
          \E ret \in ServiceOutcomes(LastCall(i)) : ServiceAnswers(i, ret)
    \/ \E i \in Slots : Deliver(i)

Spec == Init /\ [][Next]_vars

\* Invocations overlap: each slot goes on independently of the others.
ConcurrentNext ==
    \/ \E i \in Slots : pc[i] = "idle" /\
          \E r \in ConcurrentRequests : CallTool(i, r[1], r[2])
    \/ \E i \in Slots : pc[i] = "gateway" /\
          \E ret \in ConcurrentOutcomes(LastCall(i)) : ServiceAnswers(i, ret)
    \/ \E i \in Slots : Deliver(i)

ConcurrentSpec == Init /\ [][ConcurrentNext]_vars

(***************************************************************************)
(* Reading an invocation's state.                                          *)
(***************************************************************************)
\* The names list_tools advertises.
RegisteredTools == {"jira_get_issue", "jira_search"}

RECURSIVE JsonLoads(_)
\* What a reader of the text gets back: the value a JSON document denotes.
JsonLoads(doc) ==
    CASE doc.j = "null" -> None
      [] doc.j = "string" -> PyStr(doc.s)
      [] doc.j = "number" ->
            IF doc.den = 1 THEN PyInt(doc.num) ELSE PyFloat(doc.num, doc.den)
      [] doc.j = "array" ->
            PyList([k \in 1..Len(doc.elems) |-> JsonLoads(doc.elems[k])])
      [] doc.j = "object" ->
            PyDict([k \in 1..Len(doc.members) |->
                      <<doc.members[k][1], JsonLoads(doc.members[k][2])>>])

Done(i) == pc[i] = "done"
Returned(i) == Done(i) /\ outcome[i][1].kind = "return"
Failed(i) == Done(i) /\ outcome[i][1].kind = "raise"

\* The caller of slot i gets the uniform error carrying msg.
UniformError(i, msg) ==
    /\ Failed(i)
    /\ outcome[i][1].e.type = "RuntimeError"
    /\ outcome[i][1].e.msg = "Caught Exception. Error: " \o msg

\* The value the response text of slot i denotes.
Response(i) == JsonLoads(outcome[i][1].content[1].text)

MissingOrEmpty(d, k) == ~HasKey(d, k) \/ DictGet(d, k, None) = PyStr("")

Arguments(i) == request[i].arguments
IsGetIssue(i) == request[i].name = "jira_get_issue" /\ Arguments(i).t = "dict"
IsSearch(i) == request[i].name = "jira_search" /\ Arguments(i).t = "dict"

\* A jira_get_issue invocation with an issue_key that is not empty.
GivenIssueKey(i) == IsGetIssue(i) /\ ~MissingOrEmpty(Arguments(i), "issue_key")

\* A jira_search invocation with a jql that is not empty.
GivenJql(i) == IsSearch(i) /\ ~MissingOrEmpty(Arguments(i), "jql")

\* The service returned (did not raise) in slot i, and what it returned.
ServiceReturned(i) == gateway_ret[i] # <<>> /\ gateway_ret[i][1].ok
ServiceRaised(i) == gateway_ret[i] # <<>> /\ ~gateway_ret[i][1].ok
ServiceResult(i) == gateway_ret[i][1].v

\* The keys of a dict, in order.
Keys(d) == [k \in 1..Len(d.items) |-> d.items[k][1]]

\* A response of the shape {total, start_at, max_results, issues}.
Canonical(v) ==
    v.t = "dict" /\ Keys(v) = <<"total", "start_at", "max_results", "issues">>

\* The normalized form of a service issue: its simplified form when it offers
\* one, else the issue itself.
NormalizedForm(issue) ==
    IF issue.t = "obj" /\ issue.simp # <<>> THEN issue.simp[1] ELSE issue

\* The value has a key entry that is a non-empty string.
HasNonEmptyKey(v) ==
    /\ v.t = "dict"
    /\ HasKey(v, "key")
    /\ DictGet(v, "key", None).t = "str"
    /\ DictGet(v, "key", None).s # ""

\* The number a requested value stands for is greater than n.
Exceeds(v, n) ==
    CASE v.t = "int" -> v.n > n
      [] v.t = "float" -> v.num > n * v.den
      [] v.t = "str" -> BuiltinInt(v).ok /\ BuiltinInt(v).v > n
      [] OTHER -> FALSE

(***************************************************************************)
(* C1.  Every finished invocation ends in exactly one of two ways: a       *)
(* content list of one text item, when nothing raised in the try body; or  *)
(* a RuntimeError whose message is "Caught Exception. Error: " followed by *)
(* the message of the exception that was raised, whatever its type and     *)
(* wherever it was raised (argument handling, the service call,            *)
(* normalization, json.dumps).  A failure never comes with a response.     *)
(***************************************************************************)
C1_UniformOutcome ==
    \A i \in Slots :
        Done(i) =>
            /\ Len(outcome[i]) = 1
            /\ ServiceRaised(i) => failure[i] = <<gateway_ret[i][1].e>>
            /\ IF failure[i] = <<>>
               THEN /\ Returned(i)
                    /\ Len(outcome[i][1].content) = 1
                    /\ outcome[i][1].content[1].type = "text"
               ELSE outcome[i][1] =
                        Raise(Exc("RuntimeError",
                            "Caught Exception. Error: " \o failure[i][1].msg))

\* json.dumps raised TypeError on what the service returned.
C1_Witness ==
    \E i \in Slots :
        /\ Done(i) /\ ServiceReturned(i)
        /\ failure[i] # <<>> /\ failure[i][1].type = "TypeError"
        /\ UniformError(i, "Object of type Issue is not JSON serializable")

(***************************************************************************)
(* C2.  An invocation whose tool name is not registered, or whose          *)
(* arguments are not a mapping, has finished as soon as it has started,    *)
(* with the uniform error, and has made no call of the service.            *)
(***************************************************************************)
C2_RejectedBeforeService ==
    \A i \in Slots :
        (pc[i] # "idle" /\ (request[i].name \notin RegisteredTools
                              \/ Arguments(i).t # "dict")) =>
            /\ Failed(i)
            /\ failure[i] # <<>> /\ UniformError(i, failure[i][1].msg)
            /\ gateway_calls[i] = <<>>
            /\ gateway_ret[i] = <<>>

C2_Witness ==
    \E i \in Slots :
        /\ request[i].name = "jira_delete_issue"
        /\ Arguments(i) = PyDict(<< <<"issue_key", PyStr("PROJ-1")>> >>)
        /\ UniformError(i, "Unknown tool: jira_delete_issue")
        /\ gateway_calls[i] = <<>>

(***************************************************************************)
(* C3.  A jira_get_issue invocation whose issue_key is missing or empty,   *)
(* and a jira_search invocation whose jql is missing or empty, fails and   *)
(* makes no call of the service.                                           *)
(***************************************************************************)
C3_MissingRequiredRejected ==
    \A i \in Slots :
        (pc[i] # "idle"
            /\ \/ IsGetIssue(i) /\ MissingOrEmpty(Arguments(i), "issue_key")
               \/ IsSearch(i) /\ MissingOrEmpty(Arguments(i), "jql")) =>
            /\ Failed(i)
            /\ gateway_calls[i] = <<>>

(***************************************************************************)
(* C4.  The limit of every search_issues call lies in 1..50: a requested   *)
(* limit above 50 is passed as 50, one in 1..50 unchanged, one below 1     *)
(* as 1.                                                                   *)
(***************************************************************************)
C4_LimitWithinPageRange ==
    \A i \in Slots : \A k \in 1..Len(gateway_calls[i]) :
        LET call == gateway_calls[i][k]
            asked == DictGet(Arguments(i), "limit", None)
        IN  call.op = "search_issues" =>
                /\ call.limit \in 1..PAGE_CAP
                /\ asked.t = "int" =>
                      call.limit = IF asked.n > PAGE_CAP THEN PAGE_CAP
                                   ELSE IF asked.n < 1 THEN 1
                                   ELSE asked.n

(***************************************************************************)
(* C5, as claimed.  In every search response of the shape {total,          *)
(* start_at, max_results, issues}, max_results is at most 50 whatever the  *)
(* service returned; it is 50 when the requested limit is above 50, and    *)
(* the requested limit when that is in 1..50.  Stated of the search        *)
(* invocations that give a non-empty jql and no limit below 1.             *)
(***************************************************************************)
C5_MaxResultsWithinCap ==
    \A i \in Slots :
        (Returned(i) /\ GivenJql(i) /\ Canonical(Response(i))
            /\ (HasKey(Arguments(i), "limit") =>
                    Exceeds(DictGet(Arguments(i), "limit", None), 0))) =>
            LET max_results == DictGet(Response(i), "max_results", None)
                asked == DictGet(Arguments(i), "limit", None)
            IN  /\ max_results.t = "int"
                /\ max_results.n <= PAGE_CAP
                /\ Exceeds(asked, PAGE_CAP) => max_results.n = PAGE_CAP
                /\ (asked.t = "int" /\ asked.n \in 1..PAGE_CAP) =>
                        max_results.n = asked.n

(***************************************************************************)
(* C5, amended.  The dispatcher caps the limit it passes, not the          *)
(* max_results it answers: when the search result has an issues attribute  *)
(* and reports as max_results the limit the service was passed, the        *)
(* response's max_results is at most 50, is 50 for every requested limit   *)
(* above 50, and is the requested limit for every requested integer limit  *)
(* in 1..50.                                                               *)
(***************************************************************************)
C5_MaxResultsWhenLimitEchoed ==
    \A i \in Slots :
        (Returned(i) /\ IsSearch(i) /\ ServiceReturned(i)
            /\ HasAttr(ServiceResult(i), "issues")
            /\ HasAttr(ServiceResult(i), "max_results")
            /\ GetAttr(ServiceResult(i), "max_results", None)
                    = PyInt(gateway_calls[i][1].limit)) =>
            LET max_results == DictGet(Response(i), "max_results", None)
                asked == DictGet(Arguments(i), "limit", None)
            IN  /\ Canonical(Response(i))
                /\ max_results.t = "int"
                /\ max_results.n <= PAGE_CAP
                /\ Exceeds(asked, PAGE_CAP) => max_results.n = PAGE_CAP
                /\ (asked.t = "int" /\ asked.n \in 1..PAGE_CAP) =>
                        max_results.n = asked.n

\* A limit of 51 was requested, the service echoed the limit it got, and the
\* response says 50.
C5_Witness ==
    \E i \in Slots :
        /\ Returned(i) /\ IsSearch(i) /\ ServiceReturned(i)
        /\ DictGet(Arguments(i), "limit", None) = PyInt(51)
        /\ HasAttr(ServiceResult(i), "issues")
        /\ GetAttr(ServiceResult(i), "max_results", None) = PyInt(gateway_calls[i][1].limit)
        /\ DictGet(Response(i), "max_results", None) = PyInt(50)

(***************************************************************************)
(* C6.  The start of every search_issues call is non-negative; it is the   *)
(* requested startAt when that is a non-negative integer, however large,   *)
(* and 0 when startAt is absent.                                           *)
(***************************************************************************)
C6_StartNonNegative ==
    \A i \in Slots : \A k \in 1..Len(gateway_calls[i]) :
        LET call == gateway_calls[i][k]
            asked == DictGet(Arguments(i), "startAt", None)
        IN  call.op = "search_issues" =>
                /\ call.start >= 0
                /\ (asked.t = "int" /\ asked.n >= 0) => call.start = asked.n
                /\ ~HasKey(Arguments(i), "startAt") => call.start = 0

(***************************************************************************)
(* C7.  When the search result has an issues attribute and a response is   *)
(* returned, the response has the shape {total, start_at, max_results,     *)
(* issues}; its issues are as many as the service returned, in the same    *)
(* order, item k the normalized form of the service's item k; total and    *)
(* start_at are the reported values; max_results is the reported value,    *)
(* or the number of returned issues when none is reported.                 *)
(***************************************************************************)
C7_SearchResponseMirrorsService ==
    \A i \in Slots :
        (Returned(i) /\ IsSearch(i) /\ ServiceReturned(i)
            /\ HasAttr(ServiceResult(i), "issues")) =>
            LET result == ServiceResult(i)
                returned == DictGet(result.attrs, "issues", None).elems
                response == Response(i)
                issues == DictGet(response, "issues", None)
            IN  /\ Canonical(response)
                /\ issues.t = "list"
                /\ Len(issues.elems) = Len(returned)
                /\ \A k \in 1..Len(returned) :
                      issues.elems[k] = NormalizedForm(returned[k])
                /\ HasKey(result.attrs, "total") =>
                      DictGet(response, "total", None)
                          = DictGet(result.attrs, "total", None)
                /\ HasKey(result.attrs, "start_at") =>
                      DictGet(response, "start_at", None)
                          = DictGet(result.attrs, "start_at", None)
                /\ DictGet(response, "max_results", None) =
                      IF HasKey(result.attrs, "max_results")
                      THEN DictGet(result.attrs, "max_results", None)
                      ELSE PyInt(Len(returned))

\* Two issues came back for a limit of 10, a model and then a plain dict; the
\* service reported a total and no max_results.
C7_Witness ==
    \E i \in Slots :
        /\ Returned(i) /\ IsSearch(i) /\ ServiceReturned(i)
        /\ gateway_calls[i][1].limit = 10
        /\ HasAttr(ServiceResult(i), "issues")
        /\ HasAttr(ServiceResult(i), "total")
        /\ ~HasAttr(ServiceResult(i), "max_results")
        /\ DictGet(ServiceResult(i).attrs, "issues", None).elems
              = <<JiraIssue(SimplifiedIssue("PROJ-2")), RawIssue>>
        /\ DictGet(Response(i), "issues", None).elems
              = <<SimplifiedIssue("PROJ-2"), RawIssue>>
        /\ DictGet(Response(i), "max_results", None) = PyInt(2)

(***************************************************************************)
(* C8, as claimed.  When the search result has no issues attribute, the    *)
(* invocation does not fail: it returns the result itself, nothing added   *)
(* and nothing removed, whatever the result is.  Stated of the search      *)
(* invocations that give a non-empty jql.                                  *)
(***************************************************************************)
C8_RawResultAlwaysReturned ==
    \A i \in Slots :
        (Done(i) /\ GivenJql(i) /\ ServiceReturned(i)
            /\ ~HasAttr(ServiceResult(i), "issues")) =>
            /\ Returned(i)
            /\ Response(i) = ServiceResult(i)

(***************************************************************************)
(* C8, amended.  When the search result has no issues attribute, the       *)
(* invocation returns the result itself, nothing added and nothing         *)
(* removed, if json.dumps can encode the result; if it cannot, the         *)
(* invocation ends in the uniform error.                                   *)
(***************************************************************************)
C8_RawResultReturnedIfEncodable ==
    \A i \in Slots :
        (Done(i) /\ IsSearch(i) /\ ServiceReturned(i)
            /\ ~HasAttr(ServiceResult(i), "issues")) =>
            IF Unserializable(ServiceResult(i)) = <<>>
            THEN Returned(i) /\ Response(i) = ServiceResult(i)
            ELSE /\ failure[i] # <<>> /\ failure[i][1].type = "TypeError"
                 /\ UniformError(i, failure[i][1].msg)

\* A dict of the REST API came back and was returned as it is.
C8_Witness ==
    \E i \in Slots :
        /\ Returned(i) /\ IsSearch(i) /\ ServiceReturned(i)
        /\ ServiceResult(i) =
              PyDict(<< <<"errorMessages", PyList(<<PyStr("Error in the JQL Query")>>)>> >>)
        /\ Response(i) = ServiceResult(i)

(***************************************************************************)
(* C9, as claimed.  Every returned get-issue response, and every item of   *)
(* the issues of a returned search response, has a key that is present     *)
(* and not empty; when the normalized form of an issue the service         *)
(* returned has no key or an empty one, the invocation ends in the         *)
(* uniform error; and a get-issue response has the requested issue_key as  *)
(* its key when the service echoes it.  Stated of the get-issue            *)
(* invocations that give a non-empty issue_key.                            *)
(***************************************************************************)
C9_KeyAlwaysPresent ==
    \A i \in Slots :
        /\ (Returned(i) /\ GivenIssueKey(i)) => HasNonEmptyKey(Response(i))
        /\ (Returned(i) /\ IsSearch(i) /\ ServiceReturned(i)
                /\ HasAttr(ServiceResult(i), "issues")) =>
              \A k \in 1..Len(DictGet(Response(i), "issues", None).elems) :
                  HasNonEmptyKey(DictGet(Response(i), "issues", None).elems[k])
        /\ (Done(i) /\ GivenIssueKey(i) /\ ServiceReturned(i)
                /\ ~HasNonEmptyKey(NormalizedForm(ServiceResult(i)))) => Failed(i)
        /\ (Returned(i) /\ GivenIssueKey(i)
                /\ NormalizedForm(ServiceResult(i)).t = "dict"
                /\ DictGet(NormalizedForm(ServiceResult(i)), "key", None)
                      = DictGet(Arguments(i), "issue_key", None)) =>
              DictGet(Response(i), "key", None)
                  = DictGet(Arguments(i), "issue_key", None)

(***************************************************************************)
(* C9, amended.  A get-issue invocation returns the normalized form of     *)
(* the issue the service returned, as it is, whenever json.dumps can       *)
(* encode it: the key is neither checked nor supplied, so a form without   *)
(* a key or with an empty key is returned, not refused.  The response has  *)
(* the requested issue_key as its key when the service echoes it.          *)
(***************************************************************************)
C9_NormalizedFormReturnedAsIs ==
    \A i \in Slots :
        (Done(i) /\ IsGetIssue(i) /\ ServiceReturned(i)) =>
            LET form == NormalizedForm(ServiceResult(i))
                issue_key == DictGet(Arguments(i), "issue_key", None)
            IN  /\ Unserializable(form) = <<>> =>
                      Returned(i) /\ Response(i) = form
                /\ (Returned(i) /\ form.t = "dict" /\ issue_key.t = "str"
                        /\ DictGet(form, "key", None) = issue_key) =>
                      DictGet(Response(i), "key", None) = issue_key

\* The service returned a model whose simplified form has no key, and the
\* caller got that form.
C9_Witness ==
    \E i \in Slots :
        /\ Returned(i) /\ IsGetIssue(i) /\ ServiceReturned(i)
        /\ DictGet(Arguments(i), "issue_key", None) = PyStr("PROJ-2")
        /\ ServiceResult(i) = JiraIssue(SimplifiedWithoutKey)
        /\ Response(i) = SimplifiedWithoutKey
        /\ ~HasKey(Response(i), "key")

\* What holds of the service calls of slot i at any moment.
OneServiceCall(i) ==
    /\ Len(gateway_calls[i]) <= 1
    /\ Returned(i) => Len(gateway_calls[i]) = 1
    /\ ServiceRaised(i) =>
          /\ Len(gateway_calls[i]) = 1
          /\ UniformError(i, gateway_ret[i][1].e.msg)

\* Everything the model holds of the invocation in slot i.
SlotState(i) ==
    <<pc[i], request[i], gateway_calls[i], gateway_ret[i], failure[i], outcome[i]>>

(***************************************************************************)
(* C10.  An invocation calls the service at most once: exactly once when   *)
(* it returns a response; and once the service has raised, the invocation  *)
(* has finished with the uniform error carrying the service's message and  *)
(* calls it no more.  Each step is a step of one invocation and changes    *)
(* nothing of the others, however they overlap.                            *)
(***************************************************************************)
C10_AtMostOneServiceCall ==
    /\ [](\A i \in Slots : OneServiceCall(i))
    /\ [][\A i \in Slots :
            /\ (ServiceRaised(i) /\ pc'[i] # "idle") =>
                    gateway_calls'[i] = gateway_calls[i]
            /\ SlotState(i)' # SlotState(i) =>
                    \A j \in Slots \ {i} : SlotState(j)' = SlotState(j)]_vars

\* One invocation has failed on the service's error while another waits for
\* the service.
C10_Witness ==
    \E i, j \in Slots :
        /\ i # j
        /\ ServiceRaised(i) /\ UniformError(i, "401 Client Error: Unauthorized")
        /\ pc[j] = "gateway" /\ Len(gateway_calls[j]) = 1

=============================================================================
